---- MODULE Spec2Model ----
(***************************************************************************)
(* A model of the Ansible provisioner (src/provisioner.go).                *)
(*                                                                         *)
(* Four specifications share the module's variables:                       *)
(*   Spec        applyFn: the deployment workflow on one connection        *)
(*   SpecRun     runCommand with its two copyOutput goroutines             *)
(*   SpecRetry   retryFunc against a clock                                 *)
(*   SpecConfig  decodeConfig and commandBuilder as pure functions         *)
(* A specification leaves the variables of the others at their idle        *)
(* values.                                                                 *)
(***************************************************************************)
EXTENDS Integers, Sequences, FiniteSets, TLC

VARIABLES
  d,          \* the raw configuration (schema.ResourceData)
  p,          \* the decoded *provisioner
  pc,         \* position of applyFn
  deferred,   \* whether "defer comm.Disconnect()" has been registered
  retErr,     \* applyFn's return value
  trace,      \* the steps applyFn has executed, with their outcomes
  built,      \* result of commandBuilder: [err, command, parts]
  inventory,  \* uploadInventory's buf: the rendered lines, each ended by \n
  remote,     \* remote host: the paths this invocation uploaded that exist
  timeout,    \* retryFunc: its timeout argument, in seconds
  now,        \* retryFunc: seconds since retryFunc was called
  wake,       \* retryFunc: when the pending time.After(3s) fires
  err,        \* retryFunc: err of the current iteration (0 is nil)
  attempts,   \* retryFunc: calls of f made so far
  ret,        \* retryFunc: the returned error (0 is nil)
  rfPc,       \* position of retryFunc
  rcPc,       \* position of runCommand
  cmd,        \* runCommand: the remote.Cmd (Command, ExitStatus)
  rcErr,      \* runCommand: its err variable / return value
  proc,       \* the remote process: "none", "running", "exited"
  pipe,       \* per stream: lines written to the pipe and not yet relayed
  wClosed,    \* per stream: the pipe's write end is closed
  doneCh,     \* per stream: copyOutput's doneCh is closed
  written,    \* per stream: every line the remote process wrote
  sink        \* the lines o.Output received from the relays, in order

vars == <<d, p, pc, deferred, retErr, trace, built, inventory, remote,
          timeout, now, wake, err,
          attempts, ret, rfPc, rcPc, cmd, rcErr, proc, pipe, wClosed, doneCh,
          written, sink>>

applyVars == <<pc, deferred, retErr, trace>>
retryVars == <<timeout, now, wake, err, attempts, ret, rfPc>>
runVars   == <<rcPc, cmd, rcErr, proc, pipe, wClosed, doneCh, written, sink>>

-----------------------------------------------------------------------------
(* Bounds of the model *)

MaxHosts == 2       \* longest configured hosts list
MaxTimeout == 12    \* largest connection timeout, in seconds
MaxTime == 18      \* the clock stops here
MaxLines == 2       \* most lines the remote process writes to one stream
PipeCap == 1        \* lines in flight between the process and a relay

-----------------------------------------------------------------------------
(* Values *)

RECURSIVE Concat(_)
\* The string made of the strings of a sequence, in order.
Concat(ss) == IF ss = <<>> THEN "" ELSE Head(ss) \o Concat(Tail(ss))

RECURSIVE StringsJoin(_, _)
\* strings.Join
StringsJoin(ss, sep) ==
  IF ss = <<>> THEN ""
  ELSE IF Len(ss) = 1 THEN ss[1]
  ELSE ss[1] \o sep \o StringsJoin(Tail(ss), sep)

\* A path is the sequence of its components; PathString is its text.
RECURSIVE PathString(_)
PathString(path) ==
  IF path = <<>> THEN "" ELSE "/" \o Head(path) \o PathString(Tail(path))

\* filepath.Dir, filepath.Base and filepath.Join on non-empty absolute paths
FilepathDir(path) == SubSeq(path, 1, Len(path) - 1)
FilepathBase(path) == path[Len(path)]
FilepathJoin(path, more) == path \o more

bootstrapDirectory == <<"tmp", "ansible-terraform-bootstrap">>
inventoryFilePath ==
  FilepathJoin(bootstrapDirectory, <<".inventory-ansible-bootstrap", "hosts">>)

\* Dynamic values of the configuration: interface{} holding nil, a list, a
\* string or something else.
NilValue == [type |-> "nil"]
StringValue(s) == [type |-> "string", val |-> s]
OtherValue == [type |-> "int", val |-> 7]
ListValue(elems) == [type |-> "list", elems |-> elems]

SeqsUpTo(S, n) == UNION {[1..k -> S] : k \in 0..n}

-----------------------------------------------------------------------------
(* decodeConfig *)

RECURSIVE AppendStrings(_, _)
\* The loop of getStringList: the elements that are strings, in order.
AppendStrings(result, elems) ==
  IF elems = <<>> THEN result
  ELSE IF Head(elems).type = "string"
       THEN AppendStrings(Append(result, Head(elems).val), Tail(elems))
       ELSE AppendStrings(result, Tail(elems))

getStringList(v) ==
  IF v.type = "nil" THEN <<>> ELSE AppendStrings(<<>>, v.elems)

\* A map is the sequence of its <<key, value>> pairs in key order.
getStringMap(v) ==
  IF v.type = "nil" THEN <<>> ELSE v.pairs

\* A decoder that adds localhost only when it is not configured.
AppendLocalhostIfAbsent(hosts) ==
  IF \E i \in 1..Len(hosts) : hosts[i] = "localhost"
  THEN hosts ELSE Append(hosts, "localhost")

\* p.Hosts = append(p.Hosts, "localhost")
AppendLocalhost(hosts) == Append(hosts, "localhost")

decodeConfig(dd) ==
  [Playbook          |-> dd.playbook,
   Hosts             |-> AppendLocalhost(getStringList(dd.hosts)),
   Groups            |-> getStringList(dd.groups),
   Tags              |-> getStringList(dd.tags),
   SkipTags          |-> getStringList(dd.skip_tags),
   StartAtTask       |-> dd.start_at_task,
   Limit             |-> dd.limit,
   Forks             |-> dd.forks,
   ExtraVars         |-> getStringMap(dd.extra_vars),
   Verbose           |-> dd.verbose,
   ForceHandlers     |-> dd.force_handlers,
   Become            |-> dd.become,
   BecomeMethod      |-> dd.become_method,
   BecomeUser        |-> dd.become_user,
   VaultPasswordFile |-> dd.vault_password_file,
   useSudo           |-> dd.use_sudo,
   skipInstall       |-> dd.skip_install,
   skipCleanup       |-> dd.skip_cleanup,
   installVersion    |-> dd.install_version]

-----------------------------------------------------------------------------
(* commandBuilder *)

DigitString(n) ==
  CASE n = 0 -> "0" [] n = 1 -> "1" [] n = 2 -> "2" [] n = 3 -> "3"
    [] n = 4 -> "4" [] n = 5 -> "5" [] n = 6 -> "6" [] n = 7 -> "7"
    [] n = 8 -> "8" [] n = 9 -> "9"

RECURSIVE NatString(_)
NatString(n) ==
  IF n < 10 THEN DigitString(n)
  ELSE NatString(n \div 10) \o DigitString(n % 10)

\* fmt's %d
FormatInt(n) == IF n < 0 THEN "-" \o NatString(-n) ELSE NatString(n)

\* json.Marshal of one map entry whose value is a string
JsonPair(pair) ==
  "\"" \o pair[1] \o "\":\"" \o pair[2].val \o "\""

\* json.Marshal of a map[string]interface{}: keys in sorted order; a value
\* json cannot encode makes it fail.
JsonMarshal(pairs) ==
  IF \E i \in 1..Len(pairs) : pairs[i][2].type # "string"
  THEN [err |-> TRUE, text |-> ""]
  ELSE [err |-> FALSE,
        text |-> "{" \o StringsJoin([i \in 1..Len(pairs) |-> JsonPair(pairs[i])], ",")
                     \o "}"]

\* One piece of the command: the flag it carries and the text appended.
Part(flag, text) == [flag |-> flag, text |-> text]

ToolParts(playbookFile) ==
  << Part("ansible-playbook", "ansible-playbook"),
     Part("playbook", " " \o PathString(playbookFile)),
     Part("--inventory-file",
          " --inventory-file=" \o PathString(inventoryFilePath)) >>

AddExtraVars(pp, parts) ==
  IF Len(pp.ExtraVars) > 0
  THEN Append(parts, Part("--extra-vars",
                " --extra-vars='" \o JsonMarshal(pp.ExtraVars).text \o "'"))
  ELSE parts

AddSkipTags(pp, parts) ==
  IF Len(pp.SkipTags) > 0
  THEN Append(parts, Part("--skip-tags",
                " --skip-tags=" \o StringsJoin(pp.SkipTags, ",")))
  ELSE parts

AddTags(pp, parts) ==
  IF Len(pp.Tags) > 0
  THEN Append(parts, Part("--tags", " --tags=" \o StringsJoin(pp.Tags, ",")))
  ELSE parts

AddVaultPasswordFile(uploadedVaultPasswordFilePath, parts) ==
  IF Len(uploadedVaultPasswordFilePath) > 0
  THEN Append(parts, Part("--vault-password-file",
                " --vault-password-file="
                  \o PathString(uploadedVaultPasswordFilePath)))
  ELSE parts

AddStartAtTask(pp, parts) ==
  IF Len(pp.StartAtTask) > 0
  THEN Append(parts, Part("--start-at-task",
                " --start-at-task=" \o pp.StartAtTask))
  ELSE parts

AddLimit(pp, parts) ==
  IF Len(pp.Limit) > 0
  THEN Append(parts, Part("--limit", " --limit=" \o pp.Limit))
  ELSE parts

\* A builder that emits --forks for every non-negative value.
AddForksNonNegative(pp, parts) ==
  IF pp.Forks >= 0
  THEN Append(parts, Part("--forks", " --forks=" \o FormatInt(pp.Forks)))
  ELSE parts

AddForks(pp, parts) ==
  IF pp.Forks > 0
  THEN Append(parts, Part("--forks", " --forks=" \o FormatInt(pp.Forks)))
  ELSE parts

AddVerbose(pp, parts) ==
  IF pp.Verbose THEN Append(parts, Part("--verbose", " --verbose")) ELSE parts

AddForceHandlers(pp, parts) ==
  IF pp.ForceHandlers
  THEN Append(parts, Part("--force-handlers", " --force-handlers"))
  ELSE parts

\* One Sprintf appends the three become flags.
AddBecome(pp, parts) ==
  IF pp.Become
  THEN parts \o << Part("--become", " --become"),
                   Part("--become-method",
                        " --become-method='" \o pp.BecomeMethod \o "'"),
                   Part("--become-user",
                        " --become-user='" \o pp.BecomeUser \o "'") >>
  ELSE parts

CommandString(parts) == Concat([i \in 1..Len(parts) |-> parts[i].text])

BuildFailed == [err |-> TRUE, command |-> "", parts |-> <<>>]
Built(parts) == [err |-> FALSE, command |-> CommandString(parts), parts |-> parts]

commandBuilderTagsFirst(pp, playbookFile, uploadedVaultPasswordFilePath) ==
  IF Len(pp.ExtraVars) > 0 /\ JsonMarshal(pp.ExtraVars).err
  THEN BuildFailed
  ELSE Built(
    AddBecome(pp, AddForceHandlers(pp, AddVerbose(pp, AddForks(pp,
    AddLimit(pp, AddStartAtTask(pp,
    AddVaultPasswordFile(uploadedVaultPasswordFilePath,
    AddSkipTags(pp, AddTags(pp, AddExtraVars(pp,
    ToolParts(playbookFile))))))))))))

commandBuilder(pp, playbookFile, uploadedVaultPasswordFilePath) ==
  IF Len(pp.ExtraVars) > 0 /\ JsonMarshal(pp.ExtraVars).err
  THEN BuildFailed
  ELSE Built(
    AddBecome(pp, AddForceHandlers(pp, AddVerbose(pp, AddForks(pp,
    AddLimit(pp, AddStartAtTask(pp,
    AddVaultPasswordFile(uploadedVaultPasswordFilePath,
    AddTags(pp, AddSkipTags(pp, AddExtraVars(pp,
    ToolParts(playbookFile))))))))))))

\* if p.useSudo { command = "sudo " + command }
SudoPrefix(pp, command) ==
  IF pp.useSudo THEN "sudo " \o command ELSE command

\* The error values of runCommand: nil, or an error built by fmt.Errorf from
\* the arguments it is given.
NilError == [kind |-> "nil", command |-> "", status |-> 0]

\* fmt.Errorf("Error executing command %q: %v", cmd.Command, err)
StartError(c) == [kind |-> "transport", command |-> c.Command, status |-> 0]

\* An exit-status test that takes only status 1 for a failure.
ExitErrorOnlyStatusOne(c, e) ==
  IF c.ExitStatus = 1
  THEN [kind |-> "exit", command |-> c.Command, status |-> c.ExitStatus]
  ELSE e

\* if cmd.ExitStatus != 0 { err = fmt.Errorf("Command %q exited with
\* non-zero exit status: %d", cmd.Command, cmd.ExitStatus) }
ExitError(c, e) ==
  IF c.ExitStatus # 0
  THEN [kind |-> "exit", command |-> c.Command, status |-> c.ExitStatus]
  ELSE e

\* {{.}} ansible_connection=local
HostLine(h) == h \o " ansible_connection=local"

\* {{range .Hosts -}} ... {{end}}: one line per host, in slice order
RECURSIVE HostLines(_)
HostLines(hosts) ==
  IF hosts = <<>> THEN <<>>
  ELSE <<HostLine(Head(hosts))>> \o HostLines(Tail(hosts))

\* A template whose group sections range over the group's own hosts (none).
RECURSIVE GroupSectionsWithoutHosts(_, _)
GroupSectionsWithoutHosts(groups, hosts) ==
  IF groups = <<>> THEN <<>>
  ELSE <<"[" \o Head(groups) \o "]", "", "">>
       \o GroupSectionsWithoutHosts(Tail(groups), hosts)

\* {{range .Groups -}} [{{.}}] {{range $top.Hosts -}} ... {{end}} {{end}}:
\* per group the header, a line for every host of $top, and the two
\* newlines that stand between the inner and the outer {{end}}
RECURSIVE GroupSections(_, _)
GroupSections(groups, hosts) ==
  IF groups = <<>> THEN <<>>
  ELSE <<"[" \o Head(groups) \o "]">> \o HostLines(hosts) \o <<"", "">>
       \o GroupSections(Tail(groups), hosts)

\* t.Execute(&buf, p) on inventoryTemplate, as the sequence of the lines
\* written to buf (every line is ended by a newline; "" is an empty line).
\* The two newlines after the first {{end}} are written for every input.
inventoryTemplate(pp) ==
  HostLines(pp.Hosts) \o <<"", "">> \o GroupSections(pp.Groups, pp.Hosts)

\* deployAnsibleModule's remotePlaybookPath
RemotePlaybookPath(playbookPath) ==
  FilepathJoin(bootstrapDirectory, <<FilepathBase(playbookPath)>>)

\* uploadVaultPasswordFile's targetPath
VaultTargetPath(passwordFilePath) ==
  FilepathJoin(bootstrapDirectory,
               <<".vault-ansible-bootstrap", FilepathBase(passwordFilePath)>>)

-----------------------------------------------------------------------------
(* Configurations *)

\* The schema's defaults, with a playbook and one host.
DefaultConfig ==
  [playbook            |-> <<"home", "u", "play", "site.yml">>,
   hosts               |-> ListValue(<<StringValue("web1")>>),
   groups              |-> NilValue,
   tags                |-> NilValue,
   skip_tags           |-> NilValue,
   start_at_task       |-> "",
   limit               |-> "",
   forks               |-> 0,
   extra_vars          |-> NilValue,
   verbose             |-> FALSE,
   force_handlers      |-> FALSE,
   become              |-> FALSE,
   become_method       |-> "sudo",
   become_user         |-> "user",
   vault_password_file |-> <<>>,
   use_sudo            |-> TRUE,
   skip_install        |-> FALSE,
   skip_cleanup        |-> FALSE,
   install_version     |-> ""]

\* Elements a configured list can hold: getStringList takes any interface{}.
ListElems == {StringValue("web1"), StringValue("localhost"), OtherValue}

RawLists(n) == {NilValue} \cup {ListValue(s) : s \in SeqsUpTo(ListElems, n)}

TagLists ==
  {NilValue, ListValue(<<StringValue("a")>>),
   ListValue(<<StringValue("a"), StringValue("b")>>)}

MapValue(pairs) == [type |-> "map", pairs |-> pairs]

ExtraVarsValues ==
  {NilValue,
   MapValue(<<>>),
   MapValue(<< <<"env", StringValue("prod")>> >>),
   MapValue(<< <<"env", StringValue("prod")>>, <<"n", [type |-> "chan"]>> >>)}

VaultFiles == {<<>>, <<"home", "u", "vault.txt">>}

GroupLists ==
  {NilValue, ListValue(<<StringValue("app")>>),
   ListValue(<<StringValue("app"), StringValue("db")>>),
   ListValue(<<StringValue("db"), StringValue("app")>>)}

\* Configurations that differ in their hosts and groups.
HostConfigs ==
  {[DefaultConfig EXCEPT !.hosts = h, !.groups = g] :
     h \in RawLists(MaxHosts),
     g \in GroupLists}

\* Configurations that differ in the fields commandBuilder reads.
FlagConfigs ==
  {[DefaultConfig EXCEPT !.extra_vars = ev, !.skip_tags = st, !.tags = t,
                         !.vault_password_file = vf, !.start_at_task = sat,
                         !.limit = l, !.forks = f, !.verbose = vb[1],
                         !.force_handlers = vb[2], !.become = vb[3]] :
     ev \in ExtraVarsValues, st \in TagLists, t \in TagLists,
     vf \in VaultFiles, sat \in {"", "setup"}, l \in {"", "web"},
     f \in {-1, 0, 5, 12}, vb \in [1..3 -> BOOLEAN]}

\* Configurations that differ in what steers the workflow.
WorkflowConfigs ==
  {[DefaultConfig EXCEPT !.extra_vars = ev, !.vault_password_file = vf,
                         !.use_sudo = b[1], !.skip_install = b[2],
                         !.skip_cleanup = b[3]] :
     ev \in ExtraVarsValues, vf \in VaultFiles, b \in [1..3 -> BOOLEAN]}

NoProvisioner == [Hosts |-> <<>>]
NotBuilt == [err |-> FALSE, command |-> "", parts |-> <<>>]

-----------------------------------------------------------------------------
(* Idle values: a specification leaves the other parts of the program here *)

ApplyIdle ==
  /\ pc = "idle" /\ deferred = FALSE /\ retErr = "unset" /\ trace = <<>>

RetryIdle ==
  /\ timeout = 0 /\ now = 0 /\ wake = 0 /\ err = 0 /\ attempts = 0
  /\ ret = 0 /\ rfPc = "idle"

Streams == {"stdout", "stderr"}

RunIdle ==
  /\ rcPc = "idle" /\ cmd = [Command |-> "", ExitStatus |-> 0]
  /\ rcErr = NilError /\ proc = "none"
  /\ pipe = [s \in Streams |-> <<>>]
  /\ wClosed = [s \in Streams |-> FALSE]
  /\ doneCh = [s \in Streams |-> FALSE]
  /\ written = [s \in Streams |-> <<>>]
  /\ sink = <<>>

ConfigIdle ==
  /\ d = DefaultConfig /\ p = NoProvisioner /\ built = NotBuilt
  /\ inventory = <<>> /\ remote = {}

-----------------------------------------------------------------------------
(* SpecConfig: decodeConfig, then commandBuilder as deployAnsibleModule     *)
(* calls it                                                                *)

InitConfig ==
  /\ d \in HostConfigs \cup FlagConfigs
  /\ p = NoProvisioner
  /\ built = NotBuilt
  /\ inventory = <<>> /\ remote = {}
  /\ pc = "decodeConfig"
  /\ deferred = FALSE /\ retErr = "unset" /\ trace = <<>>
  /\ RetryIdle /\ RunIdle

\* p, err := decodeConfig(d)
DecodeConfig ==
  /\ pc = "decodeConfig"
  /\ p' = decodeConfig(d)
  /\ pc' = "commandBuilder"
  /\ UNCHANGED <<d, built, deferred, retErr, trace, retryVars, runVars,
                 inventory, remote>>

\* The path deployAnsibleModule hands to commandBuilder: the uploaded vault
\* password file, or "" when none is configured.
UploadedVaultPasswordFilePath(pp) ==
  IF Len(pp.VaultPasswordFile) > 0
  THEN VaultTargetPath(pp.VaultPasswordFile) ELSE <<>>

\* command, err := p.commandBuilder(remotePlaybookPath, uploadedVault...)
BuildCommand ==
  /\ pc = "commandBuilder"
  /\ built' = commandBuilder(p, RemotePlaybookPath(p.Playbook),
                             UploadedVaultPasswordFilePath(p))
  /\ pc' = "built"
  /\ UNCHANGED <<d, p, deferred, retErr, trace, retryVars, runVars,
                 inventory, remote>>

\* uploadInventory, reached when commandBuilder returned no error:
\* t.Execute(&buf, p)
ExecuteTemplate ==
  /\ pc = "built" /\ ~built.err
  /\ inventory' = inventoryTemplate(p)
  /\ pc' = "rendered"
  /\ UNCHANGED <<d, p, built, deferred, retErr, trace, retryVars, runVars,
                 remote>>

NextConfig == DecodeConfig \/ BuildCommand \/ ExecuteTemplate

SpecConfig == InitConfig /\ [][NextConfig]_vars

-----------------------------------------------------------------------------
(* Spec: applyFn. A step is one call on the communicator or one local       *)
(* operation; trace records each step taken with its argument (the command *)
(* submitted, the path written) and its outcome. A call of runCommand is   *)
(* one step whose outcome is one of runCommand's three results.            *)

Init ==
  /\ d \in WorkflowConfigs
  /\ p = NoProvisioner
  /\ built = NotBuilt
  /\ inventory = <<>> /\ remote = {}
  /\ pc = "applyFn"
  /\ deferred = FALSE
  /\ retErr = "unset"
  /\ trace = <<>>
  /\ RetryIdle /\ RunIdle

\* What runCommand returns: nil, the error of comm.Start, or the error of a
\* non-zero exit status.
RunResults == {"ok", "transport", "exit"}

Entry(step, arg, res) == [step |-> step, arg |-> arg, res |-> res]

installerTargetPath == <<"tmp", "ansible-install.sh">>

\* The command installAnsible runs.
InstallerCommand ==
  "/bin/bash -c '" \o PathString(installerTargetPath) \o " && rm "
     \o PathString(installerTargetPath) \o "'"

\* The commands uploadVaultPasswordFile and uploadInventory run first.
MkdirCommand(targetPath) == "mkdir -p " \o PathString(FilepathDir(targetPath))
ChmodCommand(targetPath) == "chmod 0777 " \o PathString(FilepathDir(targetPath))

\* The command cleanupAfterBootstrap runs.
CleanupCommand == "rm -rf " \o PathString(FilepathDir(bootstrapDirectory))

\* A workflow that uploads the inventory before it builds the command.
AfterStepInventoryFirst(step) ==
  CASE step = "Connect" ->
         IF p.skipInstall THEN "ResolvePlaybook" ELSE "UploadScript"
    [] step = "UploadScript" -> "RunInstaller"
    [] step = "RunInstaller" -> "ResolvePlaybook"
    [] step = "ResolvePlaybook" -> "UploadDir"
    [] step = "UploadDir" ->
         IF Len(p.VaultPasswordFile) > 0 THEN "ResolveVault"
         ELSE "RenderInventory"
    [] step = "ResolveVault" -> "VaultMkdir"
    [] step = "VaultMkdir" -> "VaultChmod"
    [] step = "VaultChmod" -> "VaultOpen"
    [] step = "VaultOpen" -> "VaultUpload"
    [] step = "VaultUpload" -> "RenderInventory"
    [] step = "RenderInventory" -> "InvMkdir"
    [] step = "InvMkdir" -> "InvChmod"
    [] step = "InvChmod" -> "InvUpload"
    [] step = "InvUpload" -> "CommandBuilder"
    [] step = "CommandBuilder" -> "RunPlaybook"
    [] step = "RunPlaybook" -> IF p.skipCleanup THEN "ReturnNil" ELSE "Cleanup"
    [] step = "Cleanup" -> "ReturnNil"

\* The statement applyFn, installAnsible and deployAnsibleModule reach when
\* a step did not make them return.
AfterStep(step) ==
  CASE step = "Connect" ->
         IF p.skipInstall THEN "ResolvePlaybook" ELSE "UploadScript"
    [] step = "UploadScript" -> "RunInstaller"
    [] step = "RunInstaller" -> "ResolvePlaybook"
    [] step = "ResolvePlaybook" -> "UploadDir"
    [] step = "UploadDir" ->
         IF Len(p.VaultPasswordFile) > 0 THEN "ResolveVault"
         ELSE "CommandBuilder"
    [] step = "ResolveVault" -> "VaultMkdir"
    [] step = "VaultMkdir" -> "VaultChmod"
    [] step = "VaultChmod" -> "VaultOpen"
    [] step = "VaultOpen" -> "VaultUpload"
    [] step = "VaultUpload" -> "CommandBuilder"
    [] step = "CommandBuilder" -> "RenderInventory"
    [] step = "RenderInventory" -> "InvMkdir"
    [] step = "InvMkdir" -> "InvChmod"
    [] step = "InvChmod" -> "InvUpload"
    [] step = "InvUpload" -> "RunPlaybook"
    [] step = "RunPlaybook" -> IF p.skipCleanup THEN "ReturnNil" ELSE "Cleanup"
    [] step = "Cleanup" -> "ReturnNil"

\* path is dir or lies below it.
PathUnder(dir, path) ==
  Len(dir) <= Len(path) /\ SubSeq(path, 1, Len(dir)) = dir

\* What a step with result res leaves on the remote host, as the set of the
\* possible contents. An upload that succeeded put its target there. The
\* installer command is "script && rm script": the shell runs rm only after
\* the script exited with status 0, and the command exits with status 0 only
\* if rm did too. "rm -rf dir" that exited with 0 removed all below dir; one
\* that failed may have removed any part of it. A command that was not
\* submitted changed nothing.
RemoteAfter(step, res) ==
  LET cleaned == FilepathDir(bootstrapDirectory)
      below == {f \in remote : PathUnder(cleaned, f)}
  IN CASE step = "UploadScript" /\ res = "ok" ->
            {remote \cup {installerTargetPath}}
       [] step = "RunInstaller" /\ res = "ok" ->
            {remote \ {installerTargetPath}}
       [] step = "UploadDir" /\ res = "ok" ->
            {remote \cup {bootstrapDirectory}}
       [] step = "VaultUpload" /\ res = "ok" ->
            {remote \cup {VaultTargetPath(p.VaultPasswordFile)}}
       [] step = "InvUpload" /\ res = "ok" ->
            {remote \cup {inventoryFilePath}}
       [] step = "Cleanup" /\ res = "ok" -> {remote \ below}
       [] step = "Cleanup" /\ res = "exit" ->
            {remote \ gone : gone \in SUBSET below}
       [] OTHER -> {remote}

\* An applyFn that disconnects only at the end of its success path.
ReturnDisconnectOnSuccess(e) ==
  /\ retErr' = e
  /\ pc' = IF deferred /\ e = "nil" THEN "Disconnect" ELSE "done"
  /\ UNCHANGED deferred

\* return e from applyFn: a registered "defer comm.Disconnect()" runs first.
Return(e) ==
  /\ retErr' = e
  /\ pc' = IF deferred THEN "Disconnect" ELSE "done"
  /\ UNCHANGED deferred

Goto(step) == pc' = AfterStep(step) /\ UNCHANGED <<retErr, deferred>>

\* A step whose error makes the caller return it.
CheckedStep(step, arg, results) ==
  /\ pc = step
  /\ \E res \in results :
       /\ trace' = Append(trace, Entry(step, arg, res))
       /\ remote' \in RemoteAfter(step, res)
       /\ IF res = "ok" THEN Goto(step) ELSE Return(res)
  /\ UNCHANGED <<d, p, built, retryVars, runVars, inventory>>

\* A step whose result the caller drops.
IgnoredStep(step, arg, results) ==
  /\ pc = step
  /\ \E res \in results :
       /\ trace' = Append(trace, Entry(step, arg, res))
       /\ remote' \in RemoteAfter(step, res)
  /\ Goto(step)
  /\ UNCHANGED <<d, p, built, retryVars, runVars, inventory>>

\* p, err := decodeConfig(d): err is always nil
ApplyDecodeConfig ==
  /\ pc = "applyFn"
  /\ p' = decodeConfig(d)
  /\ pc' = "New"
  /\ UNCHANGED <<d, built, deferred, retErr, trace, retryVars, runVars,
                 inventory, remote>>

\* comm, err := communicator.New(s)
NewCommunicator ==
  /\ pc = "New"
  /\ \/ pc' = "Connect" /\ UNCHANGED <<retErr, deferred>>
     \/ Return("err")
  /\ UNCHANGED <<d, p, built, trace, retryVars, runVars,
                 inventory, remote>>

\* err = retryFunc(comm.Timeout(), comm.Connect); defer comm.Disconnect()
Connect ==
  /\ pc = "Connect"
  /\ \/ /\ trace' = Append(trace, Entry("Connect", "", "ok"))
        /\ deferred' = TRUE
        /\ pc' = AfterStep("Connect")
        /\ UNCHANGED retErr
     \/ /\ trace' = Append(trace, Entry("Connect", "", "err"))
        /\ Return("err")
  /\ UNCHANGED <<d, p, built, retryVars, runVars,
                 inventory, remote>>

\* installAnsible: comm.UploadScript(targetPath, ...)
UploadScript ==
  CheckedStep("UploadScript", PathString(installerTargetPath), {"ok", "err"})

\* An installer run submitted without going through the sudo prefix.
RunInstallerUnprefixed ==
  CheckedStep("RunInstaller", InstallerCommand, RunResults)

\* installAnsible: p.runCommand("/bin/bash -c '... && rm ...'")
RunInstaller ==
  CheckedStep("RunInstaller", SudoPrefix(p, InstallerCommand), RunResults)

\* deployAnsibleModule: p.resolvePath(p.Playbook, o)
ResolvePlaybook ==
  CheckedStep("ResolvePlaybook", PathString(p.Playbook), {"ok", "err"})

\* comm.UploadDir(bootstrapDirectory, playbookDir)
UploadDir ==
  CheckedStep("UploadDir", PathString(bootstrapDirectory), {"ok", "err"})

\* p.resolvePath(vaultPasswordFilePath, o)
ResolveVault ==
  CheckedStep("ResolveVault", PathString(p.VaultPasswordFile), {"ok", "err"})

\* uploadVaultPasswordFile: p.runCommand(o, comm, "mkdir -p ...")
VaultMkdir ==
  IgnoredStep("VaultMkdir",
    SudoPrefix(p, MkdirCommand(VaultTargetPath(p.VaultPasswordFile))),
    RunResults)

\* uploadVaultPasswordFile: p.runCommand(o, comm, "chmod 0777 ...")
VaultChmod ==
  IgnoredStep("VaultChmod",
    SudoPrefix(p, ChmodCommand(VaultTargetPath(p.VaultPasswordFile))),
    RunResults)

\* uploadVaultPasswordFile: os.Open(passwordFilePath)
VaultOpen ==
  CheckedStep("VaultOpen", PathString(p.VaultPasswordFile), {"ok", "err"})

\* uploadVaultPasswordFile: comm.Upload(targetPath, ...)
VaultUpload ==
  CheckedStep("VaultUpload",
    PathString(VaultTargetPath(p.VaultPasswordFile)), {"ok", "err"})

\* command, err := p.commandBuilder(remotePlaybookPath, uploadedVault...)
CommandBuilderStep ==
  /\ pc = "CommandBuilder"
  /\ LET b == commandBuilder(p, RemotePlaybookPath(p.Playbook),
                             UploadedVaultPasswordFilePath(p))
     IN /\ built' = b
        /\ trace' = Append(trace, Entry("CommandBuilder", b.command,
                                        IF b.err THEN "err" ELSE "ok"))
        /\ IF b.err THEN Return("err") ELSE Goto("CommandBuilder")
  /\ UNCHANGED <<d, p, retryVars, runVars,
                 inventory, remote>>

\* uploadInventory: t.Execute(&buf, p) on the fixed template
RenderInventory ==
  /\ pc = "RenderInventory"
  /\ inventory' = inventoryTemplate(p)
  /\ trace' = Append(trace, Entry("RenderInventory", "", "ok"))
  /\ Goto("RenderInventory")
  /\ UNCHANGED <<d, p, built, retryVars, runVars, remote>>

\* uploadInventory: p.runCommand(o, comm, "mkdir -p ...")
InvMkdir ==
  IgnoredStep("InvMkdir", SudoPrefix(p, MkdirCommand(inventoryFilePath)),
              RunResults)

\* uploadInventory: p.runCommand(o, comm, "chmod 0777 ...")
InvChmod ==
  IgnoredStep("InvChmod", SudoPrefix(p, ChmodCommand(inventoryFilePath)),
              RunResults)

\* uploadInventory: comm.Upload(targetPath, ...)
InvUpload ==
  CheckedStep("InvUpload", PathString(inventoryFilePath), {"ok", "err"})

\* A main run whose error deployAnsibleModule drops.
RunPlaybookIgnored ==
  IgnoredStep("RunPlaybook", SudoPrefix(p, built.command), RunResults)

\* deployAnsibleModule: p.runCommand(o, comm, command)
RunPlaybook ==
  CheckedStep("RunPlaybook", SudoPrefix(p, built.command), RunResults)

\* A cleanup whose error deployAnsibleModule returns.
CleanupPropagatesError ==
  CheckedStep("Cleanup", SudoPrefix(p, CleanupCommand), RunResults)

\* if !p.skipCleanup { p.cleanupAfterBootstrap(o, comm) }
cleanupAfterBootstrap ==
  IgnoredStep("Cleanup", SudoPrefix(p, CleanupCommand), RunResults)

\* deployAnsibleModule and applyFn return nil
ReturnNil ==
  /\ pc = "ReturnNil"
  /\ Return("nil")
  /\ UNCHANGED <<d, p, built, trace, retryVars, runVars,
                 inventory, remote>>

\* The deferred comm.Disconnect() runs as applyFn returns.
Disconnect ==
  /\ pc = "Disconnect"
  /\ trace' = Append(trace, Entry("Disconnect", "", "ok"))
  /\ pc' = "done"
  /\ UNCHANGED <<d, p, built, deferred, retErr, retryVars, runVars,
                 inventory, remote>>

Next ==
  \/ ApplyDecodeConfig
  \/ NewCommunicator
  \/ Connect
  \/ UploadScript
  \/ RunInstaller
  \/ ResolvePlaybook
  \/ UploadDir
  \/ ResolveVault
  \/ VaultMkdir
  \/ VaultChmod
  \/ VaultOpen
  \/ VaultUpload
  \/ CommandBuilderStep
  \/ RenderInventory
  \/ InvMkdir
  \/ InvChmod
  \/ InvUpload
  \/ RunPlaybook
  \/ cleanupAfterBootstrap
  \/ ReturnNil
  \/ Disconnect

Spec == Init /\ [][Next]_vars

-----------------------------------------------------------------------------
(* SpecRetry: retryFunc(timeout, f) against a clock of whole seconds.       *)
(* A call of f takes no time; time passes only while the select blocks,    *)
(* and the select takes a case as soon as one is ready. The error of the   *)
(* k-th call of f is k.                                                    *)

RetryInterval == 3

InitRetry ==
  /\ timeout \in 0..MaxTimeout
  /\ now = 0 /\ wake = 0 /\ err = 0 /\ attempts = 0 /\ ret = 0
  /\ rfPc = "f"
  /\ ConfigIdle /\ ApplyIdle /\ RunIdle

\* A finish timer that is started again by every select.
FinishReadyRestarted == now >= (wake - RetryInterval) + timeout

\* finish := time.After(timeout) has fired
FinishReady == now >= timeout

\* the select's time.After(3 * time.Second) has fired
IntervalReady == now >= wake

\* err := f(); if err == nil { return nil }; the select starts its timer
CallF ==
  /\ rfPc = "f"
  /\ attempts' = attempts + 1
  /\ \/ /\ err' = 0
        /\ ret' = 0
        /\ rfPc' = "done"
        /\ UNCHANGED wake
     \/ /\ err' = attempts + 1
        /\ wake' = now + RetryInterval
        /\ rfPc' = "select"
        /\ UNCHANGED ret
  /\ UNCHANGED <<timeout, now, d, p, built, applyVars, runVars,
                 inventory, remote>>

\* A retryFunc that reports the error of its first attempt.
SelectFinishFirstErr ==
  /\ rfPc = "select"
  /\ FinishReady
  /\ ret' = 1
  /\ rfPc' = "done"
  /\ UNCHANGED <<timeout, now, wake, err, attempts, d, p, built, applyVars,
                 runVars,
                 inventory, remote>>

\* case <-finish: return err
SelectFinish ==
  /\ rfPc = "select"
  /\ FinishReady
  /\ ret' = err
  /\ rfPc' = "done"
  /\ UNCHANGED <<timeout, now, wake, err, attempts, d, p, built, applyVars,
                 runVars,
                 inventory, remote>>

\* A loop that starts its next attempt without waiting for the interval.
SelectIntervalNoWait ==
  /\ rfPc = "select"
  /\ rfPc' = "f"
  /\ UNCHANGED <<timeout, now, wake, err, attempts, ret, d, p, built,
                 applyVars, runVars,
                 inventory, remote>>

\* case <-time.After(3 * time.Second): next iteration
SelectInterval ==
  /\ rfPc = "select"
  /\ IntervalReady
  /\ rfPc' = "f"
  /\ UNCHANGED <<timeout, now, wake, err, attempts, ret, d, p, built,
                 applyVars, runVars,
                 inventory, remote>>

\* The select blocks: neither channel is ready, a second passes.
Tick ==
  /\ rfPc = "select"
  /\ ~FinishReady /\ ~IntervalReady
  /\ now < MaxTime
  /\ now' = now + 1
  /\ UNCHANGED <<timeout, wake, err, attempts, ret, rfPc, d, p, built,
                 applyVars, runVars,
                 inventory, remote>>

NextRetry == CallF \/ SelectFinish \/ SelectInterval \/ Tick

SpecRetry == InitRetry /\ [][NextRetry]_vars

\* The goroutine is scheduled and the clock runs.
SpecRetryFair == SpecRetry /\ WF_vars(NextRetry)

-----------------------------------------------------------------------------
(* SpecRun: one call of runCommand, its two copyOutput goroutines and the   *)
(* remote process. built.command is the command argument. The k-th line    *)
(* the process writes to a stream is k. pipe holds the lines written and   *)
(* not yet handed to o.Output: those in the io.Pipe and in the line        *)
(* reader of the relay.                                                    *)

RunCommands == {"mkdir -p /tmp/ansible-terraform-bootstrap", "ansible-playbook"}

ExitStatuses == {0, 1, 2}

InitRun ==
  /\ d \in {[DefaultConfig EXCEPT !.use_sudo = b] : b \in BOOLEAN}
  /\ p = decodeConfig(d)
  /\ built \in {[err |-> FALSE, command |-> c, parts |-> <<>>] : c \in RunCommands}
  /\ inventory = <<>> /\ remote = {}
  /\ rcPc = "entry"
  /\ cmd = [Command |-> "", ExitStatus |-> 0]
  /\ rcErr = NilError /\ proc = "none"
  /\ pipe = [s \in Streams |-> <<>>]
  /\ wClosed = [s \in Streams |-> FALSE]
  /\ doneCh = [s \in Streams |-> FALSE]
  /\ written = [s \in Streams |-> <<>>]
  /\ sink = <<>>
  /\ ApplyIdle /\ RetryIdle

\* The two relays run from the "go p.copyOutput" statements on.
RelaysStarted == rcPc \notin {"idle", "entry"}

\* Lines 466-481: the prefix, the pipes, the relays, the remote.Cmd.
RunCommandEntry ==
  /\ rcPc = "entry"
  /\ cmd' = [Command |-> SudoPrefix(p, built.command), ExitStatus |-> 0]
  /\ rcPc' = "Start"
  /\ UNCHANGED <<rcErr, proc, pipe, wClosed, doneCh, written, sink, d, p,
                 built, applyVars, retryVars,
                 inventory, remote>>

\* err := comm.Start(cmd); if err != nil { return ... }
CommStart ==
  /\ rcPc = "Start"
  /\ \/ /\ rcErr' = StartError(cmd)
        /\ rcPc' = "returned"
        /\ UNCHANGED proc
     \/ /\ proc' = "running"
        /\ rcPc' = "Wait"
        /\ UNCHANGED rcErr
  /\ UNCHANGED <<cmd, pipe, wClosed, doneCh, written, sink, d, p, built,
                 applyVars, retryVars,
                 inventory, remote>>

\* The remote process writes its next line to cmd.Stdout or cmd.Stderr.
ProcWrite(s) ==
  /\ proc = "running"
  /\ Len(written[s]) < MaxLines
  /\ Len(pipe[s]) < PipeCap
  /\ written' = [written EXCEPT ![s] = Append(@, Len(@) + 1)]
  /\ pipe' = [pipe EXCEPT ![s] = Append(@, Len(written[s]) + 1)]
  /\ UNCHANGED <<rcPc, cmd, rcErr, proc, wClosed, doneCh, sink, d, p, built,
                 applyVars, retryVars,
                 inventory, remote>>

\* The remote process ends; the communicator records its exit status.
ProcExit ==
  /\ proc = "running"
  /\ \E status \in ExitStatuses : cmd' = [cmd EXCEPT !.ExitStatus = status]
  /\ proc' = "exited"
  /\ UNCHANGED <<rcPc, rcErr, pipe, wClosed, doneCh, written, sink, d, p,
                 built, applyVars, retryVars,
                 inventory, remote>>

\* cmd.Wait(); if cmd.ExitStatus != 0 { err = ... }
CmdWait ==
  /\ rcPc = "Wait"
  /\ proc = "exited"
  /\ rcErr' = ExitError(cmd, rcErr)
  /\ rcPc' = "closeOut"
  /\ UNCHANGED <<cmd, proc, pipe, wClosed, doneCh, written, sink, d, p,
                 built, applyVars, retryVars,
                 inventory, remote>>

\* outW.Close()
CloseOutW ==
  /\ rcPc = "closeOut"
  /\ wClosed' = [wClosed EXCEPT !["stdout"] = TRUE]
  /\ rcPc' = "closeErr"
  /\ UNCHANGED <<cmd, rcErr, proc, pipe, doneCh, written, sink, d, p, built,
                 applyVars, retryVars,
                 inventory, remote>>

\* A runCommand that goes on to wait without closing errW.
CloseErrWSkipped ==
  /\ rcPc = "closeErr"
  /\ rcPc' = "recvOut"
  /\ UNCHANGED <<cmd, rcErr, proc, pipe, wClosed, doneCh, written, sink, d,
                 p, built, applyVars, retryVars,
                 inventory, remote>>

\* errW.Close()
CloseErrW ==
  /\ rcPc = "closeErr"
  /\ wClosed' = [wClosed EXCEPT !["stderr"] = TRUE]
  /\ rcPc' = "recvOut"
  /\ UNCHANGED <<cmd, rcErr, proc, pipe, doneCh, written, sink, d, p, built,
                 applyVars, retryVars,
                 inventory, remote>>

\* <-outDoneCh
RecvOutDone ==
  /\ rcPc = "recvOut"
  /\ doneCh["stdout"]
  /\ rcPc' = "recvErr"
  /\ UNCHANGED <<cmd, rcErr, proc, pipe, wClosed, doneCh, written, sink, d,
                 p, built, applyVars, retryVars,
                 inventory, remote>>

\* A runCommand that returns without receiving from errDoneCh.
RecvErrNoWait ==
  /\ rcPc = "recvErr"
  /\ rcPc' = "returned"
  /\ UNCHANGED <<cmd, rcErr, proc, pipe, wClosed, doneCh, written, sink, d,
                 p, built, applyVars, retryVars,
                 inventory, remote>>

\* <-errDoneCh; return err
RecvErrDone ==
  /\ rcPc = "recvErr"
  /\ doneCh["stderr"]
  /\ rcPc' = "returned"
  /\ UNCHANGED <<cmd, rcErr, proc, pipe, wClosed, doneCh, written, sink, d,
                 p, built, applyVars, retryVars,
                 inventory, remote>>

\* copyOutput: for line := range lr.Ch { o.Output(line) }
CopyOutputLine(s) ==
  /\ RelaysStarted
  /\ ~doneCh[s]
  /\ pipe[s] # <<>>
  /\ sink' = Append(sink, <<s, Head(pipe[s])>>)
  /\ pipe' = [pipe EXCEPT ![s] = Tail(@)]
  /\ UNCHANGED <<rcPc, cmd, rcErr, proc, wClosed, doneCh, written, d, p,
                 built, applyVars, retryVars,
                 inventory, remote>>

\* A relay that stops as soon as the write end is closed.
CopyOutputStopOnClose(s) ==
  /\ RelaysStarted
  /\ ~doneCh[s]
  /\ wClosed[s]
  /\ doneCh' = [doneCh EXCEPT ![s] = TRUE]
  /\ UNCHANGED <<rcPc, cmd, rcErr, proc, pipe, wClosed, written, sink, d, p,
                 built, applyVars, retryVars,
                 inventory, remote>>

\* copyOutput: the reader is drained and reports end-of-stream, lr.Ch is
\* closed, the loop ends and the deferred close(doneCh) runs.
CopyOutputEOF(s) ==
  /\ RelaysStarted
  /\ ~doneCh[s]
  /\ pipe[s] = <<>>
  /\ wClosed[s]
  /\ doneCh' = [doneCh EXCEPT ![s] = TRUE]
  /\ UNCHANGED <<rcPc, cmd, rcErr, proc, pipe, wClosed, written, sink, d, p,
                 built, applyVars, retryVars,
                 inventory, remote>>

NextRun ==
  \/ RunCommandEntry
  \/ CommStart
  \/ \E s \in Streams : ProcWrite(s)
  \/ ProcExit
  \/ CmdWait
  \/ CloseOutW
  \/ CloseErrW
  \/ RecvOutDone
  \/ RecvErrDone
  \/ \E s \in Streams : CopyOutputLine(s)
  \/ \E s \in Streams : CopyOutputEOF(s)

SpecRun == InitRun /\ [][NextRun]_vars

\* The goroutine of runCommand and the two relay goroutines are scheduled.
\* Nothing is assumed of the remote process.
SpecRunFair ==
  /\ SpecRun
  /\ WF_vars(RunCommandEntry \/ CommStart \/ CmdWait \/ CloseOutW
               \/ CloseErrW \/ RecvOutDone \/ RecvErrDone)
  /\ \A s \in Streams : WF_vars(CopyOutputLine(s) \/ CopyOutputEOF(s))

-----------------------------------------------------------------------------
(* Claims *)

\* The connection was established: the Connect step succeeded.
Connected == \E i \in 1..Len(trace) : trace[i] = Entry("Connect", "", "ok")

StepCount(step) == Cardinality({i \in 1..Len(trace) : trace[i].step = step})

\* C1: the connection is never disconnected unless it was established, never
\* twice, and nothing follows the disconnect; and every run of applyFn that
\* established the connection has, when it ends, disconnected it exactly
\* once, as its last step, whatever step made it return.
C1_DisconnectOnceAndLast ==
  /\ StepCount("Disconnect") <= 1
  /\ \A i \in 1..Len(trace) :
       trace[i].step = "Disconnect" => i = Len(trace) /\ Connected
  /\ (pc = "done" /\ Connected) =>
       /\ StepCount("Disconnect") = 1
       /\ trace[Len(trace)].step = "Disconnect"

\* applyFn ended after connect was the only step that succeeded.
C1_Witness ==
  /\ pc = "done"
  /\ Len(trace) = 3
  /\ trace[1] = Entry("Connect", "", "ok")
  /\ trace[2].res # "ok"
  /\ trace[3].step = "Disconnect"

\* The lines of one stream that reached the sink, in the order received.
RECURSIVE SinkOf(_, _)
SinkOf(lines, s) ==
  IF lines = <<>> THEN <<>>
  ELSE IF Head(lines)[1] = s
       THEN <<Head(lines)[2]>> \o SinkOf(Tail(lines), s)
       ELSE SinkOf(Tail(lines), s)

IsPrefix(a, b) == Len(a) <= Len(b) /\ a = SubSeq(b, 1, Len(a))

\* comm.Start succeeded in this call of runCommand.
Submitted == proc # "none"

\* C2 as stated: on every return path runCommand has returned only after
\* both relays observed end-of-stream and closed their done channel.
C2_RelaysDoneOnEveryReturn ==
  rcPc = "returned" => \A s \in Streams : doneCh[s]

\* C2 amended: on every return path on which the command was submitted
\* (comm.Start succeeded), runCommand has returned only after both relays
\* observed end-of-stream (write end closed, nothing left to relay) and
\* closed their done channel; a failed submission returns at once.
C2_RelaysDoneAfterSubmission ==
  /\ (rcPc = "returned" /\ Submitted) =>
       \A s \in Streams : doneCh[s] /\ wClosed[s] /\ pipe[s] = <<>>
  /\ (rcPc = "returned" /\ ~Submitted) => rcErr.kind = "transport"

\* runCommand returned after a process that wrote nothing.
C2_Witness ==
  /\ rcPc = "returned" /\ proc = "exited"
  /\ \A s \in Streams : written[s] = <<>> /\ doneCh[s]

\* C3: at every moment the lines of a stream that reached the sink are the
\* first lines the process wrote to it, in order and once each; when a
\* submitted command's runCommand has returned they are all of them.
C3_OutputCompleteAndOrdered ==
  /\ \A s \in Streams : IsPrefix(SinkOf(sink, s), written[s])
  /\ (rcPc = "returned" /\ Submitted) =>
       \A s \in Streams : SinkOf(sink, s) = written[s]

\* runCommand returned with two lines of each stream relayed, interleaved.
C3_Witness ==
  /\ rcPc = "returned"
  /\ sink = << <<"stderr", 1>>, <<"stdout", 1>>, <<"stdout", 2>>,
               <<"stderr", 2>> >>

\* C4 as stated: after a step before cleanup has failed (an upload, a path
\* resolution, a command that could not be submitted or exited non-zero,
\* the directory-preparation commands included) no step but the disconnect
\* is executed, and applyFn ends with a non-nil error.
C4_StepErrorsFailWorkflow ==
  \A i \in 1..Len(trace) :
    (trace[i].res # "ok" /\ trace[i].step # "Cleanup") =>
      /\ \A j \in (i + 1)..Len(trace) : trace[j].step = "Disconnect"
      /\ pc = "done" => retErr \notin {"nil", "unset"}

\* RunPlaybook returned nil in this run.
MainCommandSucceeded ==
  \E i \in 1..Len(trace) : trace[i].step = "RunPlaybook" /\ trace[i].res = "ok"

\* C5: when the main command succeeded, applyFn returns nil, whatever the
\* cleanup command did.
C5_CleanupNeverOverridesSuccess ==
  (pc = "done" /\ MainCommandSucceeded) => retErr = "nil"

\* applyFn returned nil although the cleanup command exited non-zero.
C5_Witness ==
  /\ pc = "done" /\ retErr = "nil"
  /\ \E i \in 1..Len(trace) : trace[i].step = "Cleanup" /\ trace[i].res = "exit"

\* The workflow phase a step belongs to.
PhaseOf(step) ==
  CASE step = "Connect" -> "Connecting"
    [] step \in {"UploadScript", "RunInstaller"} -> "Installing"
    [] step \in {"ResolvePlaybook", "UploadDir", "ResolveVault", "VaultMkdir",
                 "VaultChmod", "VaultOpen", "VaultUpload", "RenderInventory",
                 "InvMkdir", "InvChmod", "InvUpload"} -> "UploadingArtifacts"
    [] step = "CommandBuilder" -> "BuildingCommand"
    [] step = "RunPlaybook" -> "Running"
    [] step = "Cleanup" -> "CleaningUp"
    [] step = "Disconnect" -> "Disconnect"

RECURSIVE Phases(_)
\* The phases of a trace, each maximal run of steps of one phase once.
Phases(t) ==
  IF t = <<>> THEN <<>>
  ELSE LET rest == Phases(Tail(t))
           ph == PhaseOf(Head(t).step)
       IN IF ph = "Disconnect" THEN rest
          ELSE IF rest # <<>> /\ Head(rest) = ph THEN rest
          ELSE <<ph>> \o rest

\* The phase sequence observed so far, ending in Done or Failed once
\* applyFn has returned.
ObservedPhases ==
  Phases(trace) \o
    (IF pc # "done" THEN <<>>
     ELSE IF retErr = "nil" THEN <<"Done">> ELSE <<"Failed">>)

PhaseOrder ==
  << "Connecting", "Installing", "UploadingArtifacts", "BuildingCommand",
     "Running", "CleaningUp", "Done" >>

PhaseRank(ph) ==
  IF ph = "Failed" THEN Len(PhaseOrder)
  ELSE CHOOSE i \in 1..Len(PhaseOrder) : PhaseOrder[i] = ph

Index(step) == CHOOSE i \in 1..Len(trace) : trace[i].step = step
Taken(step) == \E i \in 1..Len(trace) : trace[i].step = step

\* C6 as stated: the phases are entered in the order Connecting, Installing,
\* UploadingArtifacts, BuildingCommand, Running, CleaningUp, Done, each once;
\* Installing only when skip-install is false; every step of
\* UploadingArtifacts precedes the building of the command; and with
\* skip-install, cleanup and exit status 0 the sequence is exactly
\* Connecting, UploadingArtifacts, BuildingCommand, Running, CleaningUp, Done.
C6_PhaseOrder ==
  LET ph == ObservedPhases IN
  /\ \A i, j \in 1..Len(ph) : i < j => PhaseRank(ph[i]) < PhaseRank(ph[j])
  /\ d.skip_install => \A i \in 1..Len(ph) : ph[i] # "Installing"
  /\ \A i, j \in 1..Len(trace) :
       (PhaseOf(trace[i].step) = "UploadingArtifacts"
          /\ trace[j].step = "CommandBuilder") => i < j
  /\ (pc = "done" /\ retErr = "nil" /\ d.skip_install /\ ~d.skip_cleanup) =>
       ph = << "Connecting", "UploadingArtifacts", "BuildingCommand",
               "Running", "CleaningUp", "Done" >>

\* The steps of the workflow, in the order the code takes them.
StepOrder ==
  << "Connect", "UploadScript", "RunInstaller", "ResolvePlaybook", "UploadDir",
     "ResolveVault", "VaultMkdir", "VaultChmod", "VaultOpen", "VaultUpload",
     "CommandBuilder", "RenderInventory", "InvMkdir", "InvChmod", "InvUpload",
     "RunPlaybook", "Cleanup", "Disconnect" >>

StepRank(step) == CHOOSE i \in 1..Len(StepOrder) : StepOrder[i] = step

\* C6 amended: the steps are taken in the order Connecting, Installing (only
\* when skip-install is false), upload of the playbook directory and of the
\* vault-password file, BuildingCommand, render and upload of the inventory,
\* Running, CleaningUp: the inventory is rendered and uploaded after the
\* command is built, so UploadingArtifacts is entered a second time; with
\* skip-install, cleanup and exit status 0 the phase sequence is exactly
\* Connecting, UploadingArtifacts, BuildingCommand, UploadingArtifacts,
\* Running, CleaningUp, Done.
C6_StepOrder ==
  /\ \A i, j \in 1..Len(trace) :
       i < j => StepRank(trace[i].step) < StepRank(trace[j].step)
  /\ d.skip_install =>
       \A i \in 1..Len(trace) : PhaseOf(trace[i].step) # "Installing"
  /\ (Taken("CommandBuilder") /\ d.vault_password_file # <<>>) =>
       Taken("VaultUpload")
  /\ Taken("RunPlaybook") =>
       /\ Taken("UploadDir") /\ Taken("CommandBuilder") /\ Taken("InvUpload")
       /\ Index("UploadDir") < Index("CommandBuilder")
       /\ Index("CommandBuilder") < Index("RenderInventory")
       /\ Index("InvUpload") < Index("RunPlaybook")
  /\ (pc = "done" /\ retErr = "nil" /\ d.skip_install /\ ~d.skip_cleanup) =>
       ObservedPhases =
         << "Connecting", "UploadingArtifacts", "BuildingCommand",
            "UploadingArtifacts", "Running", "CleaningUp", "Done" >>

\* applyFn returned nil with skip-install set, a vault-password file
\* uploaded and the cleanup run.
C6_Witness ==
  /\ pc = "done" /\ retErr = "nil"
  /\ d.skip_install /\ ~d.skip_cleanup
  /\ Taken("VaultUpload") /\ Taken("Cleanup")

\* C7: when retryFunc gives up on the timeout, it returns the error of the
\* last attempt made; it returns nil only when the last attempt succeeded.
C7_ReturnsLastError ==
  rfPc = "done" =>
    /\ ret = err
    /\ (ret # 0 => ret = attempts)

\* retryFunc gave up after three failed attempts.
C7_Witness == rfPc = "done" /\ attempts = 3 /\ ret = 3 /\ now >= timeout

\* C8: retryFunc terminates; it is never still running, and never returns,
\* later than the timeout plus one retry interval after it was called, for
\* every timeout including zero; and an attempt is made only while the
\* timeout has not been exceeded, so the timeout alone bounds their number.
C8_ReturnsWithinTimeout ==
  /\ <>(rfPc = "done")
  /\ [](rfPc # "idle" =>
          /\ now <= timeout + RetryInterval
          /\ RetryInterval * (attempts - 1) <= timeout)

\* retryFunc returned an error with timeout zero; every attempt failed.
C8_Witness == rfPc = "done" /\ timeout = 0 /\ ret # 0 /\ attempts = 1

Count(seq, x) == Cardinality({i \in 1..Len(seq) : seq[i] = x})

IsStringValue(e) == e.type = "string"

\* The hosts the configuration names, in order.
ConfiguredHosts(dd) ==
  IF dd.hosts.type = "nil" THEN <<>>
  ELSE LET strs == SelectSeq(dd.hosts.elems, IsStringValue)
       IN [i \in 1..Len(strs) |-> strs[i].val]

Decoded == pc \in {"commandBuilder", "built", "rendered"}

\* C9 as stated: whatever hosts are configured, the decoded hosts list holds
\* "localhost" exactly once, and it is the last entry.
C9_LocalhostExactlyOnce ==
  Decoded =>
    /\ Count(p.Hosts, "localhost") = 1
    /\ p.Hosts[Len(p.Hosts)] = "localhost"

\* C9 amended: the decoded hosts list is the configured hosts, in order,
\* followed by one appended "localhost"; so it is never empty, and the name
\* localhost occurs once more than among the configured hosts (exactly once
\* if and only if no configured host is named localhost).
C9_LocalhostAppendedOnce ==
  Decoded =>
    /\ p.Hosts = ConfiguredHosts(d) \o <<"localhost">>
    /\ Count(p.Hosts, "localhost") = 1 + Count(ConfiguredHosts(d), "localhost")
    /\ p.Hosts # <<>>

\* A configuration that names localhost itself has been decoded.
C9_Witness ==
  /\ Decoded
  /\ ConfiguredHosts(d) = <<"localhost", "web1">>
  /\ p.Hosts = <<"localhost", "web1", "localhost">>

\* The conditional flags, in the order of the compatibility contract.
FlagOrder ==
  << "--extra-vars", "--skip-tags", "--tags", "--vault-password-file",
     "--start-at-task", "--limit", "--forks", "--verbose", "--force-handlers",
     "--become", "--become-method", "--become-user" >>

IsFlag(f) == \E i \in 1..Len(FlagOrder) : FlagOrder[i] = f
FlagRank(f) == CHOOSE i \in 1..Len(FlagOrder) : FlagOrder[i] = f

\* C10: a built command starts with the tool, the playbook path and the
\* inventory-file flag, and the conditional flags that follow appear in the
\* fixed order, each at most once, with --become directly followed by
\* --become-method and --become-user.
C10_FlagOrder ==
  (pc = "built" /\ ~built.err) =>
    LET parts == built.parts IN
    /\ Len(parts) >= 3
    /\ parts[1].flag = "ansible-playbook"
    /\ parts[2].flag = "playbook"
    /\ parts[3].flag = "--inventory-file"
    /\ \A i \in 4..Len(parts) : IsFlag(parts[i].flag)
    /\ \A i, j \in 4..Len(parts) :
         i < j => FlagRank(parts[i].flag) < FlagRank(parts[j].flag)
    /\ \A i \in 4..Len(parts) :
         parts[i].flag = "--become" =>
           /\ Len(parts) = i + 2
           /\ parts[i + 1].flag = "--become-method"
           /\ parts[i + 2].flag = "--become-user"

\* A command was built with every conditional flag set.
C10_Witness ==
  /\ pc = "built" /\ ~built.err
  /\ Len(built.parts) = 15
  /\ built.parts[5].flag = "--skip-tags"
  /\ built.parts[6].flag = "--tags"

\* The built command carries this flag.
HasFlag(f) == \E i \in 1..Len(built.parts) : built.parts[i].flag = f

\* The text the built command carries for this flag.
FlagText(f) ==
  LET i == CHOOSE k \in 1..Len(built.parts) : built.parts[k].flag = f
  IN built.parts[i].text

\* C11: in a built command every conditional flag is present if and only if
\* its field is set: --forks iff forks > 0 (with the number as its value),
\* --become, --become-method and --become-user all three iff become,
\* --vault-password-file iff a vault password file was uploaded, and
\* --extra-vars, --skip-tags, --tags, --start-at-task, --limit, --verbose,
\* --force-handlers iff the field is non-empty or true.
C11_FlagIffFieldSet ==
  (pc = "built" /\ ~built.err) =>
    /\ HasFlag("--forks") <=> p.Forks > 0
    /\ p.Forks = 5 => FlagText("--forks") = " --forks=5"
    /\ p.Forks = 12 => FlagText("--forks") = " --forks=12"
    /\ HasFlag("--become") <=> p.Become
    /\ HasFlag("--become-method") <=> p.Become
    /\ HasFlag("--become-user") <=> p.Become
    /\ HasFlag("--vault-password-file") <=> d.vault_password_file # <<>>
    /\ HasFlag("--extra-vars") <=> p.ExtraVars # <<>>
    /\ HasFlag("--skip-tags") <=> p.SkipTags # <<>>
    /\ HasFlag("--tags") <=> p.Tags # <<>>
    /\ HasFlag("--start-at-task") <=> p.StartAtTask # ""
    /\ HasFlag("--limit") <=> p.Limit # ""
    /\ HasFlag("--verbose") <=> p.Verbose
    /\ HasFlag("--force-handlers") <=> p.ForceHandlers

\* A command was built with forks 5, tags set, and become, limit and the
\* vault password file unset.
C11_Witness ==
  /\ pc = "built" /\ ~built.err
  /\ p.Forks = 5 /\ HasFlag("--forks") /\ HasFlag("--tags")
  /\ ~p.Become /\ ~HasFlag("--become-user")
  /\ ~HasFlag("--limit") /\ ~HasFlag("--vault-password-file")

NonBlank(lines) == SelectSeq(lines, LAMBDA l : l # "")

\* C12: the rendered inventory is fixed by the hosts list and the groups list
\* alone: its non-blank lines are first one local-connection line per host in
\* host order, then for every group in group order a bracketed group header
\* followed by one local-connection line for every host of the full hosts
\* list in host order.
C12_InventoryStructure ==
  pc = "rendered" =>
    LET out == NonBlank(inventory)
        n == Len(p.Hosts)
        g == Len(p.Groups)
        at(j) == n + (j - 1) * (n + 1) + 1
    IN /\ Len(out) = n + g * (n + 1)
       /\ \A k \in 1..n : out[k] = p.Hosts[k] \o " ansible_connection=local"
       /\ \A j \in 1..g :
            /\ out[at(j)] = "[" \o p.Groups[j] \o "]"
            /\ \A k \in 1..n :
                 out[at(j) + k] = p.Hosts[k] \o " ansible_connection=local"

C12_Witness ==
  /\ pc = "rendered"
  /\ p.Hosts = <<"web1", "localhost">>
  /\ p.Groups = <<"db", "app">>
  /\ NonBlank(inventory) =
       <<"web1 ansible_connection=local", "localhost ansible_connection=local",
         "[db]",
         "web1 ansible_connection=local", "localhost ansible_connection=local",
         "[app]",
         "web1 ansible_connection=local", "localhost ansible_connection=local">>

\* C13: runCommand returns exactly one of three results: a transport error
\* iff submission (Start) failed, a command-failure error carrying the
\* submitted command string and the exit status iff the process completed
\* with a non-zero status, and nil iff the process was started and completed
\* with exit status 0.
C13_ResultClassification ==
  rcPc = "returned" =>
    /\ rcErr.kind \in {"nil", "transport", "exit"}
    /\ rcErr.kind = "transport" <=> ~Submitted
    /\ rcErr.kind = "exit" <=> (proc = "exited" /\ cmd.ExitStatus # 0)
    /\ rcErr.kind = "exit" =>
         /\ rcErr.command = cmd.Command
         /\ rcErr.command = SudoPrefix(p, built.command)
         /\ rcErr.status = cmd.ExitStatus
    /\ rcErr.kind = "nil" <=> (proc = "exited" /\ cmd.ExitStatus = 0)

C13_Witness ==
  /\ rcPc = "returned"
  /\ rcErr = [kind |-> "exit", command |-> "sudo ansible-playbook",
              status |-> 2]

\* The steps that submit a command to the connection.
RunSteps ==
  {"RunInstaller", "VaultMkdir", "VaultChmod", "InvMkdir", "InvChmod",
   "RunPlaybook", "Cleanup"}

\* The command each such step means to run, before any prefix.
Intended(step) ==
  CASE step = "RunInstaller" ->
         "/bin/bash -c '/tmp/ansible-install.sh && rm /tmp/ansible-install.sh'"
    [] step \in {"VaultMkdir", "InvMkdir"} ->
         "mkdir -p /tmp/ansible-terraform-bootstrap/"
           \o (IF step = "VaultMkdir" THEN ".vault-ansible-bootstrap"
                ELSE ".inventory-ansible-bootstrap")
    [] step \in {"VaultChmod", "InvChmod"} ->
         "chmod 0777 /tmp/ansible-terraform-bootstrap/"
           \o (IF step = "VaultChmod" THEN ".vault-ansible-bootstrap"
                ELSE ".inventory-ansible-bootstrap")
    [] step = "RunPlaybook" -> built.command
    [] step = "Cleanup" -> CleanupCommand

\* C14: in a workflow whose use-sudo flag is set every command submitted to
\* the connection is the intended command prefixed exactly once with "sudo ",
\* and in a workflow whose flag is not set every submitted command is the
\* intended command itself.
C14_SudoPrefixUniform ==
  \A i \in 1..Len(trace) :
    trace[i].step \in RunSteps =>
      trace[i].arg = IF d.use_sudo THEN "sudo " \o Intended(trace[i].step)
                                  ELSE Intended(trace[i].step)

C14_Witness ==
  /\ d.use_sudo
  /\ pc = "done"
  /\ \A s \in RunSteps : \E i \in 1..Len(trace) : trace[i].step = s
  /\ \E i \in 1..Len(trace) :
       /\ trace[i].step = "InvChmod"
       /\ trace[i].arg =
            "sudo chmod 0777 /tmp/ansible-terraform-bootstrap/.inventory-ansible-bootstrap"

\* C15: the cleanup command targets the bootstrap directory to which the
\* playbook directory, the inventory file and the vault-password file were
\* uploaded: not a parent of it and no other remote path.
C15_CleanupTargetsBootstrapDirectory ==
  \A i \in 1..Len(trace) :
    trace[i].step = "Cleanup" =>
      trace[i].arg \in {"rm -rf /tmp/ansible-terraform-bootstrap",
                        "sudo rm -rf /tmp/ansible-terraform-bootstrap"}

\* C16: once the Installing phase has uploaded the installer script and
\* executed it, the script is gone from its fixed temporary path on the
\* remote host, whether the installer exited with success or with failure.
C16_InstallerScriptRemoved ==
  \A i \in 1..Len(trace) :
    (trace[i].step = "RunInstaller" /\ trace[i].res \in {"ok", "exit"}) =>
      installerTargetPath \notin remote

\* C17: retryFunc invokes f at least once whatever the timeout; the first
\* successful attempt ends the loop at once with nil and no attempt follows
\* it; after a failed attempt another attempt is started only when the
\* 3-second interval has fired and the timeout has not fired before it, and
\* the loop returns instead only when the timeout has fired and the interval
\* has not fired before it, so that no attempt follows an observed timeout.
C17_AttemptsAndRetries ==
  /\ [](rfPc = "done" => attempts >= 1)
  /\ [][/\ (rfPc = "f" /\ err' = 0) => (rfPc' = "done" /\ ret' = 0)
        /\ rfPc = "done" => (attempts' = attempts /\ rfPc' = "done")
        /\ (rfPc = "select" /\ rfPc' = "f") =>
             (now = wake /\ wake <= timeout)
        /\ (rfPc = "select" /\ rfPc' = "done") =>
             (now >= timeout /\ now <= wake /\ attempts' = attempts)
        /\ attempts' # attempts => (rfPc = "f" /\ attempts' = attempts + 1)
       ]_vars

C17_Witness ==
  /\ rfPc = "done" /\ timeout = 7
  /\ attempts = 3 /\ ret = 3 /\ now = 7 /\ wake = 9

\* C18: once command submission has succeeded and the remote process has
\* reported completion, runCommand eventually returns, whatever the relays
\* and the closes of the write ends do in between and whatever the process
\* wrote to either stream: the two waits never deadlock.
C18_RunCommandReturns ==
  (Submitted /\ proc = "exited") ~> (rcPc = "returned")

C18_Witness ==
  /\ rcPc = "returned" /\ proc = "exited"
  /\ written["stdout"] = <<>>
  /\ Len(written["stderr"]) = MaxLines
  /\ Len(sink) = MaxLines

\* C19: on every return path of runCommand, the one where Start fails
\* included, both relays eventually terminate.
C19_RelaysTerminate ==
  (rcPc = "returned") ~> (\A s \in Streams : doneCh[s])

Succeeded(step) ==
  \E i \in 1..Len(trace) : trace[i].step = step /\ trace[i].res = "ok"

\* C20: the cleanup command is attempted only when skip-cleanup is false and
\* the main command returned success, at most once, and every workflow that
\* ends with both has attempted it; so a workflow that fails after the
\* playbook directory was uploaded attempts no cleanup, and what it uploaded
\* is still on the remote host when the connection is disconnected.
C20_CleanupIffMainSucceeded ==
  /\ StepCount("Cleanup") <= 1
  /\ Taken("Cleanup") => (~d.skip_cleanup /\ MainCommandSucceeded)
  /\ (pc \in {"Disconnect", "done"} /\ ~d.skip_cleanup
        /\ MainCommandSucceeded) => Taken("Cleanup")
  /\ (pc = "done" /\ retErr # "nil" /\ Succeeded("UploadDir")) =>
       /\ ~Taken("Cleanup")
       /\ bootstrapDirectory \in remote
       /\ Succeeded("VaultUpload") =>
            VaultTargetPath(d.vault_password_file) \in remote
       /\ Succeeded("InvUpload") => inventoryFilePath \in remote

C20_Witness ==
  /\ pc = "done" /\ retErr = "exit" /\ ~d.skip_cleanup
  /\ trace[Len(trace) - 1].step = "RunPlaybook"
  /\ ~Taken("Cleanup")
  /\ remote = {bootstrapDirectory, inventoryFilePath,
               VaultTargetPath(<<"home", "u", "vault.txt">>)}

====
